---- MODULE Spec2Model ----
(***************************************************************************)
(* Model of src-tauri/src/main.rs: the get_file_tree command and the       *)
(* recursive helper build_file_tree, run against a small filesystem.       *)
(*                                                                         *)
(* The filesystem is a graph of inodes.  A directory maps entry names to   *)
(* targets; std::fs::metadata and std::fs::read_dir both follow symbolic   *)
(* links, so a link to a directory is an entry whose target is that        *)
(* directory, and a dangling link is an entry whose target is Broken.      *)
(* Strings are sequences of one-character strings so that starts_with,     *)
(* equality and the path rendering are computed and not assumed.           *)
(***************************************************************************)
EXTENDS Integers, Sequences, FiniteSets, TLC

\* fs      the filesystem the std::fs calls read
\* pc      "idle", "running" (a request is being served), "done" (it returned)
\*         or "aborted" (the recursion exhausted the thread's stack)
\* root    the path argument of the request
\* stack   the frames of build_file_tree, the running call last
\* result  what get_file_tree returned to its caller
\* diag    the lines the request wrote with eprintln!
\* listed  the paths the request called read_dir on
\* calls   the requests that have returned
\* prev    what the first request returned, child order aside
\* changes the changes another actor has made to the filesystem
VARIABLES fs, pc, root, stack, result, diag, listed, calls, prev, changes

vars == <<fs, pc, root, stack, result, diag, listed, calls, prev, changes>>

(***************************************************************************)
(* Bounds                                                                  *)
(***************************************************************************)
\* Frames of build_file_tree the thread's stack holds before it overflows.
StackLimit == 3
\* Requests made of get_file_tree in one run.
MaxCalls == 2
\* Changes another actor makes to the filesystem during one run.
MaxChanges == 1

(***************************************************************************)
(* Names                                                                   *)
(***************************************************************************)
N_a == <<"a">>
N_b == <<"b">>
N_src == <<"s", "r", "c">>
N_hidden == <<".", "h">>
N_node_modules == <<"n", "o", "d", "e", "_", "m", "o", "d", "u", "l", "e", "s">>
N_target == <<"t", "a", "r", "g", "e", "t">>
N_proj == <<"p", "r", "o", "j">>
N_file == <<"f", ".", "t">>
N_missing == <<"n", "o">>
N_dotdot == <<".", ".">>

\* OsStr::to_string_lossy: a byte that is not valid UTF-8 becomes U+FFFD.
BadByte == "\\xFF"
Replacement == "U+FFFD"

ToStringLossy(s) == [i \in 1..Len(s) |-> IF s[i] = BadByte THEN Replacement ELSE s[i]]

N_bad == <<"c", BadByte>>

Names == {N_a, N_b, N_src, N_hidden, N_node_modules, N_target}
RootNames == {N_proj, N_file, N_missing, N_target, N_bad}

(***************************************************************************)
(* Filesystem                                                              *)
(***************************************************************************)
DirInodes == {"D1", "D2"}
Targets == {"Absent", "Broken", "F", "D1", "D2"}
ListModes == {"ok", "fail", "entryerr"}

\* What a name leads to from each kind of target: only a directory has entries.
EntriesFrom(f) ==
    f.ents @@ [t \in Targets \ DirInodes |-> [m \in Names |-> "Absent"]]

\* A path is a sequence of components; the first is looked up in fs.top,
\* every later one in what the path before it leads to, links followed.
RECURSIVE Resolve(_, _)
Resolve(f, path) ==
    IF Len(path) = 0 THEN "Absent"
    ELSE IF Len(path) = 1 THEN f.top[path[1]]
    ELSE EntriesFrom(f)[Resolve(f, SubSeq(path, 1, Len(path) - 1))][path[Len(path)]]

\* std::fs::metadata(&path): Ok(is_dir) or Err(kind).
Metadata(f, path) ==
    LET t == Resolve(f, path)
    IN IF t \in {"Absent", "Broken"} THEN [ok |-> FALSE, is_dir |-> FALSE, err |-> "NotFound"]
       ELSE [ok |-> TRUE, is_dir |-> t \in DirInodes, err |-> "none"]

\* std::fs::read_dir(path): Ok(the entries) or Err(kind).
ReadDir(f, path) ==
    LET t == Resolve(f, path)
    IN IF t \in {"Absent", "Broken"} THEN [ok |-> FALSE, names |-> {}, err |-> "NotFound"]
       ELSE IF t \notin DirInodes THEN [ok |-> FALSE, names |-> {}, err |-> "NotADirectory"]
       ELSE IF f.mode[t] = "fail" THEN [ok |-> FALSE, names |-> {}, err |-> "PermissionDenied"]
       ELSE [ok |-> TRUE,
             names |-> {m \in DOMAIN f.ents[t] : f.ents[t][m] # "Absent"},
             err |-> "none"]

\* Whether the iterator over the directory at path yields an Err item.
IterFails(f, path) ==
    LET t == Resolve(f, path)
    IN t \in DirInodes /\ f.mode[t] = "entryerr"

\* io::Error's Display, as used by e.to_string() and by eprintln!.
ErrToString(kind) ==
    CASE kind = "NotFound" -> "No such file or directory (os error 2)"
      [] kind = "PermissionDenied" -> "Permission denied (os error 13)"
      [] kind = "NotADirectory" -> "Not a directory (os error 20)"
      [] kind = "Io" -> "Input/output error (os error 5)"

(***************************************************************************)
(* build_file_tree                                                         *)
(***************************************************************************)
\* Path::file_name().map(to_string_lossy).unwrap_or(""): the last component,
\* or "" when the path has none or ends in "..".
FileName(path) ==
    IF Len(path) = 0 \/ path[Len(path)] = N_dotdot THEN <<>>
    ELSE ToStringLossy(path[Len(path)])

\* path.to_string_lossy(): the components joined by the separator.
RECURSIVE PathStr(_)
PathStr(path) ==
    IF Len(path) = 0 THEN <<>>
    ELSE IF Len(path) = 1 THEN ToStringLossy(path[1])
    ELSE PathStr(SubSeq(path, 1, Len(path) - 1)) \o <<"/">> \o ToStringLossy(path[Len(path)])

StartsWith(s, c) == Len(s) > 0 /\ s[1] = c

\* A skip test that forgets one of the two literal names.
FilteredNoTarget(file_name) ==
    StartsWith(file_name, ".") \/ file_name = N_node_modules

FilteredNoNodeModules(file_name) ==
    StartsWith(file_name, ".") \/ file_name = N_target

\* The skip test of the child loop.
Filtered(file_name) ==
    StartsWith(file_name, ".") \/ file_name = N_node_modules \/ file_name = N_target

\* Option: None is <<>>, Some(v) is <<v>>.
None == <<>>
Some(v) == <<v>>

\* A literal that starts every entry with an empty children vector.
NewEntryEmptyChildren(path, is_dir) ==
    [name |-> FileName(path), path |-> PathStr(path), is_directory |-> is_dir,
     children |-> Some(<<>>)]

\* The FileEntry literal: children starts as None.
NewEntry(path, is_dir) ==
    [name |-> FileName(path), path |-> PathStr(path), is_directory |-> is_dir,
     children |-> None]

\* A children vector kept in a static and not cleared between requests.
NewChildrenStale ==
    IF calls = 0 THEN <<>>
    ELSE <<[name |-> N_a, path |-> N_a, is_directory |-> FALSE, children |-> None]>>

\* let mut children = Vec::new();
NewChildren == <<>>

NewFrame(path) ==
    [path |-> path, phase |-> "stat", entry |-> None, iter |-> {}, children |-> NewChildren]

Ok(e) == [ok |-> TRUE, entry |-> Some(e), err |-> "none"]
Err(kind) == [ok |-> FALSE, entry |-> None, err |-> kind]

\* An Err arm that also throws away the children built so far.
OnChildResultDropsSiblings(parent, res) ==
    IF res.ok
    THEN [frame |-> [parent EXCEPT !.children = Append(@, res.entry[1])],
          lines |-> <<>>]
    ELSE [frame |-> [parent EXCEPT !.children = <<>>],
          lines |-> << <<"Error processing file: ", ErrToString(res.err)>> >>]

\* The match on the recursive call's result: push, or report and go on.
OnChildResult(parent, res) ==
    IF res.ok
    THEN [frame |-> [parent EXCEPT !.children = Append(@, res.entry[1])],
          lines |-> <<>>]
    ELSE [frame |-> parent,
          lines |-> << <<"Error processing file: ", ErrToString(res.err)>> >>]

\* get_file_tree: build_file_tree(path_buf).map_err(|e| e.to_string())
ToCaller(res) ==
    IF res.ok THEN [status |-> "Ok", entry |-> res.entry, msg |-> ""]
    ELSE [status |-> "Err", entry |-> None, msg |-> ErrToString(res.err)]

NoResult == [status |-> "none", entry |-> None, msg |-> ""]

RECURSIVE Canon(_)
\* A tree with each children sequence read as a collection, order aside.
Canon(n) ==
    [name |-> n.name, path |-> n.path, is_directory |-> n.is_directory,
     count |-> IF n.children = None THEN 0 ELSE Len(n.children[1]),
     children |-> IF n.children = None THEN None
                  ELSE Some({Canon(n.children[1][i]) : i \in 1..Len(n.children[1])})]

CanonResult(r) ==
    [status |-> r.status, msg |-> r.msg,
     entry |-> IF r.entry = None THEN None ELSE Some(Canon(r.entry[1]))]

\* A recursive call written with the ? operator: an Err unwinds every frame.
ReturnUnwinds(stk, res) ==
    IF Len(stk) = 1 \/ ~res.ok
    THEN [stack |-> <<>>, result |-> ToCaller(res), lines |-> <<>>]
    ELSE LET n == Len(stk) - 1
             r == OnChildResult(stk[n], res)
         IN [stack |-> [SubSeq(stk, 1, n) EXCEPT ![n] = r.frame],
             result |-> NoResult, lines |-> r.lines]

\* The frame on top of the stack returns res to whoever called it.
Return(stk, res) ==
    IF Len(stk) = 1
    THEN [stack |-> <<>>, result |-> ToCaller(res), lines |-> <<>>]
    ELSE LET n == Len(stk) - 1
             r == OnChildResult(stk[n], res)
         IN [stack |-> [SubSeq(stk, 1, n) EXCEPT ![n] = r.frame],
             result |-> NoResult, lines |-> r.lines]

Returns(res) ==
    LET r == Return(stack, res)
    IN /\ stack' = r.stack
       /\ diag' = diag \o r.lines
       /\ result' = r.result
       /\ pc' = IF r.stack = <<>> THEN "done" ELSE "running"
       /\ calls' = IF r.stack = <<>> THEN calls + 1 ELSE calls
       /\ prev' = IF r.stack = <<>> /\ prev = None THEN Some(CanonResult(r.result)) ELSE prev

Top == stack[Len(stack)]

\* get_file_tree(path): the command is invoked.  A request after the first
\* repeats the first one's path.
Call(path) ==
    /\ pc \in {"idle", "done"}
    /\ calls < MaxCalls
    /\ pc = "done" => path = root
    /\ pc' = "running"
    /\ root' = path
    /\ stack' = <<NewFrame(path)>>
    /\ result' = NoResult
    /\ diag' = <<>>
    /\ listed' = {}
    /\ UNCHANGED <<fs, calls, prev, changes>>

\* A build that goes on to list a path whose metadata it could not read.
AfterMetadataLate(path, md) ==
    IF ~md.ok THEN [next |-> "read_dir", res |-> Ok(NewEntry(path, TRUE))]
    ELSE IF ~md.is_dir THEN [next |-> "return", res |-> Ok(NewEntry(path, FALSE))]
    ELSE [next |-> "read_dir", res |-> Ok(NewEntry(path, TRUE))]

\* What the metadata call leads to: Err, a finished file node, or a directory to list.
AfterMetadata(path, md) ==
    IF ~md.ok THEN [next |-> "return", res |-> Err(md.err)]
    ELSE IF ~md.is_dir THEN [next |-> "return", res |-> Ok(NewEntry(path, FALSE))]
    ELSE [next |-> "read_dir", res |-> Ok(NewEntry(path, TRUE))]

\* let metadata = std::fs::metadata(&path)?; ... the entry is constructed.
StatStep ==
    /\ pc = "running"
    /\ Top.phase = "stat"
    /\ LET a == AfterMetadata(Top.path, Metadata(fs, Top.path))
       IN IF a.next = "return"
          THEN Returns(a.res) /\ UNCHANGED listed
          ELSE /\ stack' = [stack EXCEPT ![Len(stack)] =
                               [@ EXCEPT !.phase = "read_dir", !.entry = a.res.entry]]
               /\ UNCHANGED <<pc, result, diag, listed, calls, prev>>
    /\ UNCHANGED <<fs, root, changes>>

\* A listing whose failure is read as an empty directory.
AfterReadDirLenient(rd) == [next |-> "iter", res |-> Err("none"), iter |-> rd.names]

\* What the read_dir call leads to: Err, or an iterator over the entries.
AfterReadDir(rd) ==
    IF ~rd.ok THEN [next |-> "return", res |-> Err(rd.err), iter |-> {}]
    ELSE [next |-> "iter", res |-> Err("none"), iter |-> rd.names]

\* std::fs::read_dir(path)?
ReadDirStep ==
    /\ pc = "running"
    /\ Top.phase = "read_dir"
    /\ listed' = listed \cup {Top.path}
    /\ LET a == AfterReadDir(ReadDir(fs, Top.path))
       IN IF a.next = "return"
          THEN Returns(a.res)
          ELSE /\ stack' = [stack EXCEPT ![Len(stack)] =
                               [@ EXCEPT !.phase = "iter", !.iter = a.iter]]
               /\ UNCHANGED <<pc, result, diag, calls, prev>>
    /\ UNCHANGED <<fs, root, changes>>

\* The iterator moves past the entry it yielded.
Advance(iter, m) == iter \ {m}

\* A loop that recurses on the directory itself.
ChildPathSame(path, m) == path

\* child_entry.path(): the directory's path joined with the entry's name.
ChildPath(path, m) == Append(path, m)

\* One turn of the for loop over an Ok item: skip it, or recurse into it.
\* Nothing in the code bounds the recursion; a call that finds the stack
\* full overflows it, which aborts the process.
IterNext(m) ==
    /\ pc = "running"
    /\ Top.phase = "iter"
    /\ m \in Top.iter
    /\ LET child_path == ChildPath(Top.path, m)
           file_name == FileName(child_path)
           advanced == [stack EXCEPT ![Len(stack)] = [@ EXCEPT !.iter = Advance(@, m)]]
       IN IF Filtered(file_name)
          THEN stack' = advanced /\ pc' = pc
          ELSE IF Len(stack) >= StackLimit
               THEN stack' = advanced /\ pc' = "aborted"
               ELSE stack' = Append(advanced, NewFrame(child_path)) /\ pc' = pc
    /\ UNCHANGED <<fs, root, result, diag, listed, calls, prev, changes>>

\* entry.children = Some(children); Ok(entry)
Finish(frame) == Ok([frame.entry[1] EXCEPT !.children = Some(frame.children)])

\* An Err item that only ends the loop: the directory keeps what it has.
OnEntryErrorBreak(frame) == Finish(frame)

\* What an Err item of the iterator leads to (let child_entry = entry_result?).
OnEntryError(frame) == Err("Io")

\* The iterator yields an Err item.
IterErr ==
    /\ pc = "running"
    /\ Top.phase = "iter"
    /\ IterFails(fs, Top.path)
    /\ Returns(OnEntryError(Top))
    /\ UNCHANGED <<fs, root, listed, changes>>

\* The iterator is exhausted.
IterEnd ==
    /\ pc = "running"
    /\ Top.phase = "iter"
    /\ Top.iter = {}
    /\ ~IterFails(fs, Top.path)
    /\ Returns(Finish(Top))
    /\ UNCHANGED <<fs, root, listed, changes>>

(***************************************************************************)
(* The filesystems a run starts from                                       *)
(***************************************************************************)
\* Entries of D1 (the project directory): ordinary members, some of which
\* cannot be built, next to members the filter skips.
SkippedD1 ==
    {(N_hidden :> "Absent") @@ (N_node_modules :> "Absent") @@ (N_target :> "Absent"),
     (N_hidden :> "F") @@ (N_node_modules :> "D2") @@ (N_target :> "Absent"),
     (N_hidden :> "Absent") @@ (N_node_modules :> "Absent") @@ (N_target :> "F")}

EntsD1 ==
    {(N_a :> a) @@ (N_b :> b) @@ (N_src :> s) @@ h :
        a \in {"Absent", "F", "Broken"}, b \in {"Absent", "F"},
        s \in {"Absent", "D2"}, h \in SkippedD1}

\* Entries of D2 (a sub-directory); its entry b may be a link back to D1.
EntsD2 ==
    {(N_a :> "Absent") @@ (N_b :> b) @@ (N_src :> "Absent") @@ (N_hidden :> h)
       @@ (N_node_modules :> "Absent") @@ (N_target :> "Absent") :
        b \in {"Absent", "F", "Broken", "D1"}, h \in {"Absent", "F"}}

TopDir ==
    (N_proj :> "D1") @@ (N_file :> "F") @@ (N_missing :> "Absent") @@ (N_target :> "D2")
    @@ (N_bad :> "F")

FileSystems ==
    {[top |-> TopDir, ents |-> ("D1" :> e1) @@ ("D2" :> e2), mode |-> md] :
        e1 \in EntsD1, e2 \in EntsD2, md \in [DirInodes -> ListModes]}

Init ==
    /\ fs \in FileSystems
    /\ pc = "idle"
    /\ root = <<>>
    /\ stack = <<>>
    /\ result = NoResult
    /\ diag = <<>>
    /\ listed = {}
    /\ calls = 0
    /\ prev = None
    /\ changes = 0

Next ==
    \/ \E p \in RootNames : Call(<<p>>)
    \/ StatStep
    \/ ReadDirStep
    \/ \E m \in Names : IterNext(m)
    \/ IterErr
    \/ IterEnd

Spec == Init /\ [][Next]_vars

(***************************************************************************)
(* The same program, with the steps of one thread taken fairly             *)
(***************************************************************************)
LiveFileSystems ==
    {f \in FileSystems :
        /\ f.ents["D1"][N_a] = "F" /\ f.ents["D1"][N_b] = "Absent"
        /\ f.ents["D1"][N_hidden] = "F"
        /\ f.ents["D2"][N_b] # "Broken" /\ f.ents["D2"][N_hidden] = "Absent"
        /\ f.mode["D1"] # "fail" /\ f.mode["D2"] = "ok"}

LiveInit == Init /\ fs \in LiveFileSystems

FairSpec == LiveInit /\ [][Next]_vars /\ WF_vars(Next)

(***************************************************************************)
(* The same program, while another actor changes the filesystem            *)
(***************************************************************************)
\* Another process unlinks an entry, or puts a regular file in its place.
ChangeEntry(d, m, t) ==
    /\ pc = "running"
    /\ changes < MaxChanges
    /\ fs.ents[d][m] # t
    /\ fs' = [fs EXCEPT !.ents[d][m] = t]
    /\ changes' = changes + 1
    /\ UNCHANGED <<pc, root, stack, result, diag, listed, calls, prev>>

\* Another process unlinks the path given to the command, or replaces it.
ChangeTop(t) ==
    /\ pc = "running"
    /\ changes < MaxChanges
    /\ fs.top[root[1]] # t
    /\ fs' = [fs EXCEPT !.top[root[1]] = t]
    /\ changes' = changes + 1
    /\ UNCHANGED <<pc, root, stack, result, diag, listed, calls, prev>>

ConcFileSystems ==
    {f \in FileSystems :
        /\ f.ents["D1"][N_a] = "F" /\ f.ents["D1"][N_b] = "Absent"
        /\ f.ents["D1"][N_src] = "D2" /\ f.ents["D1"][N_hidden] = "F"
        /\ f.ents["D2"][N_b] = "F"
        /\ f.mode["D1"] # "fail" /\ f.mode["D2"] = "ok"}

ConcInit == Init /\ fs \in ConcFileSystems

NextConc ==
    \/ Next
    \/ \E d \in DirInodes, m \in Names, t \in {"Absent", "F"} : ChangeEntry(d, m, t)
    \/ \E t \in {"Absent", "F"} : ChangeTop(t)

SpecConc == ConcInit /\ [][NextConc]_vars

(***************************************************************************)
(* Vocabulary of the properties                                            *)
(***************************************************************************)
Done == pc = "done"
Succeeded == Done /\ result.status = "Ok"
Failed == Done /\ result.status = "Err"

ChildrenOf(n) ==
    IF n.children = None THEN {} ELSE {n.children[1][i] : i \in 1..Len(n.children[1])}

RECURSIVE Nodes(_)
\* Every node of the tree below and including n.
Nodes(n) == {n} \cup UNION {Nodes(c) : c \in ChildrenOf(n)}

ResultNodes == IF result.entry = None THEN {} ELSE Nodes(result.entry[1])
NonRootNodes ==
    IF result.entry = None THEN {} ELSE UNION {Nodes(c) : c \in ChildrenOf(result.entry[1])}

RECURSIVE SplitFrom(_, _, _, _)
SplitFrom(s, i, cur, acc) ==
    IF i > Len(s) THEN Append(acc, cur)
    ELSE IF s[i] = "/" THEN SplitFrom(s, i + 1, <<>>, Append(acc, cur))
    ELSE SplitFrom(s, i + 1, Append(cur, s[i]), acc)

\* The components of the path a node records (the root's is the argument).
PathOf(n) == IF n.path = PathStr(root) THEN root ELSE SplitFrom(n.path, 1, <<>>, <<>>)

\* The skip list as the specification words it.
SkipName(s) == (Len(s) > 0 /\ Head(s) = ".") \/ s = N_node_modules \/ s = N_target

\* The immediate members of the directory a path leads to.
Members(p) ==
    LET d == Resolve(fs, p)
    IN IF d \in DirInodes THEN {m \in Names : fs.ents[d][m] # "Absent"} ELSE {}

IsDir(p) == Resolve(fs, p) \in DirInodes
StatFails(p) == Resolve(fs, p) \in {"Absent", "Broken"}
ListFails(p) == IsDir(p) /\ fs.mode[Resolve(fs, p)] = "fail"
EntryFails(p) == IsDir(p) /\ fs.mode[Resolve(fs, p)] = "entryerr"

\* A path whose own build returns Ok: it can be stat'ed and, when it is a
\* directory, listed to the end.
Builds(p) == ~StatFails(p) /\ ~ListFails(p) /\ ~EntryFails(p)

IsPrefix(p, q) == Len(p) <= Len(q) /\ SubSeq(q, 1, Len(p)) = p

ChildNames(n) == {c.name : c \in ChildrenOf(n)}

\* C1: in a returned tree every node, at every depth, has children absent
\* exactly when is_directory is false, and is_directory is what the
\* filesystem says of the node's path.
C1_ChildrenIffDirectory ==
    Done => \A n \in ResultNodes :
                /\ (n.children = None) <=> ~n.is_directory
                /\ n.is_directory <=> IsDir(PathOf(n))

C1_Witness ==
    /\ Succeeded
    /\ \E n \in NonRootNodes : n.is_directory /\ n.children = Some(<<>>)
    /\ \E n \in NonRootNodes : ~n.is_directory
    /\ \E n \in ResultNodes : n.is_directory /\ n.children # Some(<<>>)

\* C2 as stated: no node of a returned tree, the root included, has a name
\* the skip list names.
C2_NoSkippedNameAnywhere ==
    Done => \A n \in ResultNodes : ~SkipName(n.name)

\* C2 amended: no node of a returned tree other than the root has a name
\* the skip list names; the root carries the name of the path it was given.
C2_NoSkippedNameBelowRoot ==
    Done => /\ \A n \in NonRootNodes : ~SkipName(n.name)
            /\ result.entry # None => result.entry[1].name = FileName(root)

C2_Witness ==
    /\ Succeeded
    /\ root = <<N_target>>
    /\ result.entry[1].name = N_target
    /\ fs.ents["D2"][N_hidden] = "F"
    /\ ChildNames(result.entry[1]) = {N_b}

\* C3 as stated: every directory node has exactly one child per immediate
\* member whose name passes the filter.
C3_OneChildPerUnskippedMember ==
    Succeeded => \A n \in ResultNodes :
        n.is_directory =>
            /\ ChildNames(n) = {m \in Members(PathOf(n)) : ~SkipName(m)}
            /\ Len(n.children[1]) = Cardinality(ChildNames(n))

\* C3 amended: every directory node has exactly one child per immediate
\* member whose name passes the filter and whose own build succeeds, none
\* for any other member, and each child records the member's name and path.
C3_OneChildPerBuiltMember ==
    Succeeded => \A n \in ResultNodes :
        n.is_directory =>
            /\ ChildNames(n) =
                  {m \in Members(PathOf(n)) : ~SkipName(m) /\ Builds(Append(PathOf(n), m))}
            /\ Len(n.children[1]) = Cardinality(ChildNames(n))
            /\ \A c \in ChildrenOf(n) : c.path = n.path \o <<"/">> \o c.name

\* The scenario of the specification: /proj holds a.txt, .hidden,
\* node_modules/ and src/ with b.txt.
C3_Witness ==
    /\ Succeeded
    /\ root = <<N_proj>>
    /\ Members(root) = {N_a, N_hidden, N_node_modules, N_src}
    /\ Members(<<N_proj, N_src>>) = {N_b}
    /\ ChildNames(result.entry[1]) = {N_a, N_src}
    /\ \E c \in ChildrenOf(result.entry[1]) :
          /\ c.name = N_src /\ c.is_directory
          /\ \E g \in ChildrenOf(c) : g.name = N_b /\ ~g.is_directory /\ ChildrenOf(c) = {g}
    /\ \E c \in ChildrenOf(result.entry[1]) : c.name = N_a /\ c.children = None

\* The members of a returned directory that pass the filter and do not build.
FailingMembers(n) ==
    {m \in Members(PathOf(n)) : ~SkipName(m) /\ ~Builds(Append(PathOf(n), m))}

RECURSIVE SumFailing(_)
SumFailing(ns) ==
    IF ns = {} THEN 0
    ELSE LET n == CHOOSE x \in ns : TRUE
         IN Cardinality(FailingMembers(n)) + SumFailing(ns \ {n})

RootBuilds == ~StatFails(root) /\ ~ListFails(root) /\ ~EntryFails(root)

\* C4: when the root can be stat'ed and listed, the call returns Ok whatever
\* fails below; a directory node holds every member that builds and none
\* that fails, and each failure under a returned directory left a line on
\* the diagnostic channel.
C4_DescendantFailuresAreSwallowed ==
    (Done /\ RootBuilds) =>
        /\ result.status = "Ok"
        /\ result.entry # None
        /\ \A n \in ResultNodes : n.is_directory =>
              \A m \in Members(PathOf(n)) :
                 /\ m \in FailingMembers(n) => m \notin ChildNames(n)
                 /\ (~SkipName(m) /\ Builds(Append(PathOf(n), m))) => m \in ChildNames(n)
        /\ \A n \in ResultNodes : Builds(PathOf(n))
        /\ Len(diag) >= SumFailing({n \in ResultNodes : n.is_directory})
        /\ (\A p \in listed : ~EntryFails(p)) =>
              Len(diag) = SumFailing({n \in ResultNodes : n.is_directory})

\* Two members that build next to one that does not.
C4_Witness ==
    /\ Succeeded
    /\ root = <<N_proj>>
    /\ ChildNames(result.entry[1]) = {N_a, N_b}
    /\ ListFails(<<N_proj, N_src>>)
    /\ diag = << <<"Error processing file: ", "Permission denied (os error 13)">> >>

\* C5 as stated: a failed stat of the root, or a failed listing of the root
\* or of any directory the traversal reached, makes the call return an error.
C5_EveryListingFailureSurfaces ==
    (Done /\ (StatFails(root) \/ \E p \in listed : ListFails(p))) =>
        (result.status = "Err" /\ result.entry = None)

\* C5 amended: a failed stat of the root or a failed listing of the root
\* makes the call return an error message and no entry; a failed listing of
\* a directory below the root does not reach the caller: that directory is
\* left out of its parent and the call fails only for a failure at the root.
C5_RootFailuresSurface ==
    Done =>
        /\ StatFails(root) =>
              /\ result = [status |-> "Err", entry |-> None,
                           msg |-> "No such file or directory (os error 2)"]
        /\ ListFails(root) =>
              /\ result = [status |-> "Err", entry |-> None,
                           msg |-> "Permission denied (os error 13)"]
        /\ \A p \in listed : (p # root /\ ListFails(p)) =>
              /\ \A n \in ResultNodes : PathOf(n) # p
              /\ result.status = "Err" => ~RootBuilds

C5_Witness ==
    /\ Failed
    /\ root = <<N_proj>>
    /\ ListFails(root)
    /\ listed = {root}

\* A directory below the root whose listing fails, in a call that succeeds.
C5_WitnessBelowRoot ==
    /\ Succeeded
    /\ \E p \in listed : p # root /\ ListFails(p)

\* C6: when the metadata of the path cannot be read the call fails with that
\* error, returns no entry, and no directory listing was attempted; no path
\* whose metadata cannot be read is ever listed.
C6_StatFailureFailsAtOnce ==
    /\ \A p \in listed : ~StatFails(p)
    /\ (Done /\ StatFails(root)) =>
          /\ result.status = "Err"
          /\ result.entry = None
          /\ result.msg = "No such file or directory (os error 2)"
          /\ listed = {}
          /\ diag = <<>>

C6_Witness ==
    /\ Failed
    /\ root = <<N_missing>>
    /\ listed = {}

\* C7: a second call on the same path over the unchanged filesystem returns
\* what the first returned: the same failure, or the same nodes at each
\* level, the order of children aside.
C7_SecondCallAgrees ==
    (Done /\ calls = 2) => (prev # None /\ CanonResult(result) = prev[1])

C7_Witness ==
    /\ Succeeded
    /\ calls = 2
    /\ Cardinality(ChildNames(result.entry[1])) >= 2
    /\ \E n \in NonRootNodes : n.is_directory /\ n.children # Some(<<>>)

\* C9: an Err item of a directory's iterator fails the build of that
\* directory: at the root the call returns the error and no entry; below the
\* root the directory, with the children already built for it, is absent
\* from the result and the failure is a line on the diagnostic channel.
C9_EntryErrorDropsDirectory ==
    Done =>
        /\ (EntryFails(root) /\ root \in listed) =>
              result = [status |-> "Err", entry |-> None,
                        msg |-> "Input/output error (os error 5)"]
        /\ \A n \in ResultNodes : ~EntryFails(PathOf(n))
        /\ \A p \in listed : (p # root /\ EntryFails(p) /\ Succeeded) =>
              /\ \A n \in ResultNodes : ~IsPrefix(p, PathOf(n))
              /\ \E i \in 1..Len(diag) : diag[i][2] = "Input/output error (os error 5)"

\* A sub-directory whose member would have built, dropped by an entry error.
C9_Witness ==
    /\ Succeeded
    /\ root = <<N_proj>>
    /\ EntryFails(<<N_proj, N_src>>)
    /\ <<N_proj, N_src>> \in listed
    /\ Resolve(fs, <<N_proj, N_src, N_b>>) = "F"
    /\ ChildNames(result.entry[1]) = {N_a}

Links(f) ==
    {dt \in DirInodes \X DirInodes : \E m \in Names : f.ents[dt[1]][m] = dt[2]}

RECURSIVE ReachIn(_, _, _, _)
ReachIn(f, d, t, k) ==
    /\ k > 0
    /\ \/ <<d, t>> \in Links(f)
       \/ \E x \in DirInodes : <<d, x>> \in Links(f) /\ ReachIn(f, x, t, k - 1)

\* Some directory is its own descendant: a link leads back to an ancestor.
HasLoop(f) == \E d \in DirInodes : ReachIn(f, d, d, Cardinality(DirInodes))

C8_LoopReached == pc = "aborted" /\ HasLoop(fs)

\* C10: while another actor changes the filesystem, every returned node
\* still has children present exactly when is_directory holds and every
\* node but the root has a name the filter passes; an Err result comes only
\* from the root's own frame; and a child that cannot be stat'ed any more is
\* left out, with a diagnostic line, while the build goes on.
C10_ShapeAndPolicyUnderChange ==
    /\ [](Done => /\ \A n \in ResultNodes : (n.children = None) <=> ~n.is_directory
                  /\ \A n \in NonRootNodes : ~SkipName(n.name))
    /\ [][/\ (result'.status = "Err" /\ result.status # "Err") =>
               (Len(stack) = 1 /\ stack[1].path = root)
          /\ (/\ pc = "running" /\ Len(stack) > 1
              /\ stack[Len(stack)].phase = "stat"
              /\ StatFails(stack[Len(stack)].path)
              /\ stack' # stack) =>
               /\ pc' = "running"
               /\ result'.status = "none"
               /\ Len(stack') = Len(stack) - 1
               /\ stack'[Len(stack')].children = stack[Len(stack) - 1].children
               /\ Len(diag') = Len(diag) + 1]_vars

\* A call that succeeded although a member was unlinked between the listing
\* that named it and its stat.
C10_Witness ==
    /\ Succeeded
    /\ changes > 0
    /\ \A p \in listed : ~ListFails(p) /\ ~EntryFails(p)
    /\ \E i \in 1..Len(diag) : diag[i][2] = "No such file or directory (os error 2)"
    /\ ChildrenOf(result.entry[1]) # {}
====
